---- MODULE Spec2Model ----
(***************************************************************************)
(* Smack Talk Central: the client-side session state of src/src/App.js     *)
(* (message history, deduplication ledger, user stats, polls, reactions)   *)
(* as a state machine.  Every React event handler, effect callback and     *)
(* promise continuation is one action; handlers run to completion, as on   *)
(* the browser's single UI thread.                                         *)
(*                                                                         *)
(* Strings are sequences of one-character strings, so that sanitizeText    *)
(* and trim are computed character by character as the code does.          *)
(* Date.now() is the variable now, advanced by the action Tick; a handler  *)
(* that runs twice before the clock advances reads the same value twice.   *)
(***************************************************************************)
EXTENDS Integers, Sequences, FiniteSets, Bags, TLC

VARIABLES
    now,                  \* the value Date.now() returns
    user,                 \* Clerk's user object, NoUser while signed out
    isSignedIn,           \* Clerk's isSignedIn
    showAuthModal,        \* App.js:77
    messages,             \* App.js:87
    currentMessage,       \* App.js:90
    polls,                \* App.js:93
    userVotes,            \* App.js:94
    pollCards,            \* the poll cards PollSidebar has rendered
    showCreatePoll,       \* App.js:95
    showKlipyPicker,      \* App.js:98
    reactionCounts,       \* App.js:101
    reactionTimestamps,   \* App.js:108
    decayDue,             \* when the setInterval callback of App.js:134 runs next
    isConnected,          \* App.js:114
    connectionError,      \* App.js:115
    processedMessageIds,  \* App.js:117
    userStats,            \* App.js:120
    toasts,               \* App.js:127
    levelUpTimers,        \* pending setTimeout(..., 100) callbacks of App.js:332
    connectPc,            \* position of connectToChannel (App.js:166)
    loadPc,               \* position of loadPersistedMessages (App.js:230)
    statsPc,              \* position of initUserStats (App.js:266)
    xpRequests,           \* bodies POSTed to /user-stats/xp, in order
    inFlight,             \* the events.post and saveMessage promises not yet settled
    mounted,              \* whether App is mounted: its effects run, its cleanups not yet
    searchQuery,          \* src/unnamed/part_012:113
    contentItems,         \* src/unnamed/part_012:116
    isLoading,            \* src/unnamed/part_012:119
    debounceTimer,        \* the timeout held by debounceTimerRef (part_012:123)
    requests              \* the Klipy requests that have not settled, in order of issue

vars == <<now, user, isSignedIn, showAuthModal, messages, currentMessage, polls,
          userVotes, pollCards, showCreatePoll, showKlipyPicker, reactionCounts, reactionTimestamps,
          decayDue,
          isConnected, connectionError, processedMessageIds, userStats, toasts,
          levelUpTimers, connectPc, loadPc, statsPc, xpRequests,
          inFlight, mounted,
          searchQuery, contentItems, isLoading, debounceTimer, requests>>

identityVars == <<user, isSignedIn>>
uiVars == <<showAuthModal, currentMessage, showCreatePoll, showKlipyPicker>>
chatVars == <<messages, processedMessageIds>>
pollVars == <<polls, userVotes>>
reactionVars == <<reactionCounts, reactionTimestamps>>
viewVars == <<pollCards>>
timerVars == <<decayDue>>
connVars == <<isConnected, connectionError, connectPc>>
statsVars == <<userStats, toasts, levelUpTimers, xpRequests>>
netVars == <<inFlight>>
lifeVars == <<mounted>>
pickerVars == <<searchQuery, contentItems, isLoading, debounceTimer, requests>>

(***************************************************************************)
(* Bounds of the model.                                                    *)
(***************************************************************************)
MaxClock == 2
MaxMessages == 3
MaxPolls == 2
MaxTicks == 32
MaxRequests == 5

(***************************************************************************)
(* Strings.                                                                *)
(***************************************************************************)
RECURSIVE Concat(_)
Concat(ss) == IF ss = <<>> THEN <<>> ELSE Head(ss) \o Concat(Tail(ss))

\* src/src/utils/sanitize.js:11-20; the double quote and the backtick are
\* written "dquote" and "backtick"
HTML_ENTITIES(c) ==
    CASE c = "&" -> <<"&", "a", "m", "p", ";">>
      [] c = "<" -> <<"&", "l", "t", ";">>
      [] c = ">" -> <<"&", "g", "t", ";">>
      [] c = "dquote" -> <<"&", "q", "u", "o", "t", ";">>
      [] c = "'" -> <<"&", "#", "x", "2", "7", ";">>
      [] c = "/" -> <<"&", "#", "x", "2", "F", ";">>
      [] c = "backtick" -> <<"&", "#", "x", "6", "0", ";">>
      [] c = "=" -> <<"&", "#", "x", "3", "D", ";">>
      [] OTHER -> <<c>>

\* src/src/utils/sanitize.js:27-32 (every value of the model is a string)
sanitizeText(text) == Concat([i \in 1..Len(text) |-> HTML_ENTITIES(text[i])])

RECURSIVE trimStart(_)
trimStart(t) == IF t # <<>> /\ Head(t) = " " THEN trimStart(Tail(t)) ELSE t

RECURSIVE trimEnd(_)
trimEnd(t) ==
    IF t # <<>> /\ t[Len(t)] = " " THEN trimEnd(SubSeq(t, 1, Len(t) - 1)) ELSE t

DefaultMaxLength == 500

\* src/src/utils/sanitize.js:56-61
normalizeMessageInput(text) ==
    LET trimmed == trimEnd(trimStart(text))
    IN  SubSeq(trimmed, 1, IF Len(trimmed) < DefaultMaxLength
                              THEN Len(trimmed) ELSE DefaultMaxLength)

(***************************************************************************)
(* Identity.                                                               *)
(***************************************************************************)
NoUser == [id |-> "", username |-> <<>>]

\* the accounts that can sign in on this browser
Accounts == { [id |-> "user_bob", username |-> <<"B", "o", "b">>],
              [id |-> "user_obr", username |-> <<"O", "'", "B">>] }

Anonymous == <<"A", "n", "o", "n">>

\* App.js:84
currentUsername == IF user.username # <<>> THEN user.username ELSE Anonymous

(***************************************************************************)
(* XP rules and levels.                                                    *)
(***************************************************************************)
XP_message == 5
XP_streak3 == 15
XP_streak5 == 30
XP_streak10 == 50

\* src/src/services/userStatsService.js:30-36
LEVELS == << [level |-> 1, name |-> "Rookie Ranter", xpRequired |-> 0],
             [level |-> 2, name |-> "Sideline Sniper", xpRequired |-> 100],
             [level |-> 3, name |-> "Halftime Heckler", xpRequired |-> 300],
             [level |-> 4, name |-> "Fourth-Quarter Fiend", xpRequired |-> 600],
             [level |-> 5, name |-> "Hall-of-Flame", xpRequired |-> 1000] >>

RECURSIVE levelScan(_, _)
levelScan(xp, i) ==
    IF i < 1 THEN LEVELS[1]
    ELSE IF xp >= LEVELS[i].xpRequired THEN LEVELS[i]
    ELSE levelScan(xp, i - 1)

\* calculateLevel scanning the table from its first row
calculateLevelFirstMatch(xp) ==
    LET RECURSIVE scan(_)
        scan(i) == IF i > Len(LEVELS) THEN LEVELS[1]
                   ELSE IF xp >= LEVELS[i].xpRequired THEN LEVELS[i]
                   ELSE scan(i + 1)
    IN  scan(1)

\* src/src/services/userStatsService.js:43-51
calculateLevel(xp) == levelScan(xp, Len(LEVELS))

\* calculateStreakBonus adding up the bonuses of the milestones reached
calculateStreakBonusCumulative(streakCount) ==
    (IF streakCount >= 10 THEN XP_streak10 ELSE 0)
        + (IF streakCount >= 5 THEN XP_streak5 ELSE 0)
        + (IF streakCount >= 3 THEN XP_streak3 ELSE 0)

\* src/src/services/userStatsService.js:58-63
calculateStreakBonus(streakCount) ==
    IF streakCount = 10 THEN XP_streak10
    ELSE IF streakCount = 5 THEN XP_streak5
    ELSE IF streakCount = 3 THEN XP_streak3
    ELSE 0

RECURSIVE streakScan(_, _, _, _)
streakScan(messageList, username, i, streak) ==
    IF i < 1 THEN streak
    ELSE IF messageList[i].type = "message" /\ messageList[i].username = username
         THEN streakScan(messageList, username, i - 1, streak + 1)
    ELSE IF messageList[i].type = "message" THEN streak
    ELSE streakScan(messageList, username, i - 1, streak)

\* calculateCurrentStreak with the scan ending at the first entry that is
\* not a message of username
calculateCurrentStreakNoSkip(messageList, username) ==
    LET RECURSIVE scan(_, _)
        scan(i, streak) ==
            IF i < 1 THEN streak
            ELSE IF messageList[i].type = "message" /\ messageList[i].username = username
                 THEN scan(i - 1, streak + 1)
                 ELSE streak
    IN  scan(Len(messageList), 0)

\* App.js:293-306
calculateCurrentStreak(messageList, username) ==
    streakScan(messageList, username, Len(messageList), 0)

(***************************************************************************)
(* Values of the session state.                                            *)
(***************************************************************************)
\* a value of the media field: js is its JavaScript type; undefined is the
\* field of an event without attachment
NoMedia == [js |-> "undefined", type |-> "", url |-> <<>>]

\* the five keys of App.js:101-107, by name
EMOJI == {"fire", "thumbsup", "wow", "flex", "laugh"}

\* App.js:135 and 159, in milliseconds
DecayWindow == 30000
DecayInterval == 1000

\* no timeout held by debounceTimerRef
NoTimer == [set |-> FALSE, query |-> <<>>]

\* the request getTrendingContent issues, as against a search for a query
Trending == [trending |-> TRUE, query |-> <<>>]

\* App.js:77-127 without the polls: the state after the first render and its
\* effects; the picker's effect of src/unnamed/part_012:138-161 runs with the
\* empty query and has called loadTrendingContent
SessionInit ==
    /\ now = 1
    /\ user = NoUser
    /\ isSignedIn = FALSE
    /\ showAuthModal = FALSE
    /\ messages = <<>>
    /\ currentMessage = <<>>
    /\ userVotes = <<>>
    /\ showCreatePoll = FALSE
    /\ showKlipyPicker = FALSE
    /\ reactionCounts = [e \in EMOJI |-> 0]
    /\ reactionTimestamps = <<>>
    /\ decayDue = 1 + DecayInterval
    /\ isConnected = FALSE
    /\ connectionError = "null"
    /\ processedMessageIds = {}
    /\ userStats = [xp |-> 0, level |-> LEVELS[1], currentStreak |-> 0]
    /\ toasts = <<>>
    /\ levelUpTimers = <<>>
    /\ connectPc = "awaiting"
    /\ loadPc = "awaiting"
    /\ statsPc = "idle"
    /\ xpRequests = <<>>
    /\ inFlight = EmptyBag
    /\ mounted = TRUE
    /\ searchQuery = <<>>
    /\ contentItems = <<>>
    /\ isLoading = TRUE
    /\ debounceTimer = NoTimer
    /\ requests = <<Trending>>

\* App.js:77-127: the state after the first render
Init ==
    /\ SessionInit
    /\ polls = <<>>
    /\ pollCards = <<>>

(***************************************************************************)
(* The clock and the identity provider.                                    *)
(***************************************************************************)
\* what a React state holds after its setter is called with new: the setter
\* of a component that has been unmounted does nothing
setState(old, new) == IF mounted THEN new ELSE old

\* the value of decayDue once clearInterval has run (App.js:159)
Cleared == 0

Tick ==
    /\ now < MaxClock
    /\ now' = now + 1
    /\ UNCHANGED <<identityVars, uiVars, chatVars, pollVars, reactionVars, connVars,
                   statsVars, loadPc, statsPc, viewVars, timerVars,
                   netVars, lifeVars, pickerVars>>

\* Clerk reports a signed-in user; the effect of App.js:263-278 starts the
\* stats fetch
SignIn(account) ==
    /\ mounted
    /\ ~isSignedIn
    /\ isSignedIn' = TRUE
    /\ user' = account
    /\ statsPc' = "awaiting"
    /\ UNCHANGED <<now, uiVars, chatVars, pollVars, reactionVars, connVars, statsVars, loadPc,
                   viewVars, timerVars,
                   netVars, lifeVars, pickerVars>>

\* Clerk reports that the session has ended (it expired, or the user signed
\* out in another tab): useUser (App.js:81) returns isSignedIn false and no
\* user, and the state of App stays as it is
SignOut ==
    /\ mounted
    /\ isSignedIn
    /\ isSignedIn' = FALSE
    /\ user' = NoUser
    /\ UNCHANGED <<now, uiVars, chatVars, pollVars, reactionVars, connVars, statsVars, loadPc,
                   statsPc, viewVars, timerVars, netVars, lifeVars, pickerVars>>

(***************************************************************************)
(* Sanitization of inbound events.                                         *)
(***************************************************************************)
\* A URL is a sequence of tokens: the scheme with its colon, "//", the
\* labels of the host separated by ".", then "/" and the path; the tokens
\* are in the form new URL() reports them (lower case, no port, no userinfo).
Schemes == {"https:", "http:"}

\* whether new URL(url) returns rather than throws (src/unnamed/part_005:108)
parsesAsURL(url) ==
    /\ Len(url) >= 3
    /\ url[1] \in Schemes
    /\ url[2] = "//"
    /\ url[3] \notin {".", "/"}

\* url.protocol
protocol(url) == url[1]

RECURSIVE hostEnd(_, _)
hostEnd(url, i) == IF i > Len(url) \/ url[i] = "/" THEN i - 1 ELSE hostEnd(url, i + 1)

\* url.hostname
hostname(url) == SubSeq(url, 3, hostEnd(url, 3))

\* src/unnamed/part_005:66-80
ALLOWED_MEDIA_DOMAINS ==
    { <<"media", ".", "giphy", ".", "com">>, <<"giphy", ".", "com">>,
      <<"i", ".", "giphy", ".", "com">>, <<"media0", ".", "giphy", ".", "com">>,
      <<"media1", ".", "giphy", ".", "com">>, <<"media2", ".", "giphy", ".", "com">>,
      <<"media3", ".", "giphy", ".", "com">>, <<"media4", ".", "giphy", ".", "com">>,
      <<"tenor", ".", "com">>, <<"media", ".", "tenor", ".", "com">>,
      <<"c", ".", "tenor", ".", "com">>, <<"klipy", ".", "com">>,
      <<"static", ".", "klipy", ".", "com">> }

\* String.prototype.endsWith
endsWith(str, suffix) ==
    /\ Len(suffix) <= Len(str)
    /\ SubSeq(str, Len(str) - Len(suffix) + 1, Len(str)) = suffix

\* src/unnamed/part_005:117-119
isAllowedDomain(host) ==
    \E domain \in ALLOWED_MEDIA_DOMAINS : host = domain \/ endsWith(host, <<".">> \o domain)

\* sanitizeMedia without the protocol check of lines 111-114
sanitizeMediaAnyScheme(media) ==
    IF media.js # "object" THEN NoMedia
    ELSE IF media.type # "gif" THEN NoMedia
    ELSE IF media.url = <<>> THEN NoMedia
    ELSE IF ~parsesAsURL(media.url) THEN NoMedia
    ELSE IF ~isAllowedDomain(hostname(media.url)) THEN NoMedia
    ELSE [js |-> "object", type |-> "gif", url |-> media.url]

\* src/unnamed/part_005:87-140; null is the absent attachment
sanitizeMedia(media) ==
    IF media.js # "object" THEN NoMedia
    ELSE IF media.type # "gif" THEN NoMedia
    ELSE IF media.url = <<>> THEN NoMedia
    ELSE IF ~parsesAsURL(media.url) THEN NoMedia
    ELSE IF protocol(media.url) # "https:" THEN NoMedia
    ELSE IF ~isAllowedDomain(hostname(media.url)) THEN NoMedia
    ELSE [js |-> "object", type |-> "gif", url |-> media.url]

\* src/unnamed/part_005:147-171
sanitizeMessageWithMedia(message) ==
    [message EXCEPT !.text = sanitizeText(message.text),
                    !.username = sanitizeText(message.username),
                    !.media = IF message.media.js = "undefined"
                              THEN message.media
                              ELSE sanitizeMedia(message.media)]

(***************************************************************************)
(* The broadcast channel.                                                  *)
(***************************************************************************)
\* App.js:166-175
ConnectResolved ==
    /\ connectPc = "awaiting"
    /\ connectPc' = "subscribed"
    /\ isConnected' = setState(isConnected, TRUE)
    /\ connectionError' = setState(connectionError, "null")
    /\ UNCHANGED <<now, identityVars, uiVars, chatVars, pollVars, reactionVars, statsVars,
                   loadPc, statsPc, viewVars, timerVars,
                   netVars, lifeVars, pickerVars>>

\* App.js:208-212
ConnectRejected ==
    /\ connectPc = "awaiting"
    /\ connectPc' = "failed"
    /\ isConnected' = setState(isConnected, FALSE)
    /\ connectionError' =
           setState(connectionError, "Failed to connect to chat. Messages will be local only.")
    /\ UNCHANGED <<now, identityVars, uiVars, chatVars, pollVars, reactionVars, statsVars,
                   loadPc, statsPc, viewVars, timerVars,
                   netVars, lifeVars, pickerVars>>

\* App.js:202-205: the error callback of the subscription
SubscriptionError ==
    /\ connectPc = "subscribed"
    /\ connectionError' = setState(connectionError, "Connection error. Messages may not sync.")
    /\ UNCHANGED <<now, identityVars, uiVars, chatVars, pollVars, reactionVars, statsVars,
                   isConnected, connectPc, loadPc, statsPc, viewVars, timerVars,
                   netVars, lifeVars, pickerVars>>

\* the cleanups of App.js:159 and 216-225 and of the picker's timer
\* (src/unnamed/part_012:156-160), run when App is unmounted; subscription
\* and channelRef.current are set only once events.connect has resolved
Unmount ==
    /\ mounted
    /\ mounted' = FALSE
    /\ decayDue' = Cleared
    /\ connectPc' = IF connectPc = "subscribed" THEN "closed" ELSE connectPc
    /\ debounceTimer' = NoTimer
    /\ UNCHANGED <<now, identityVars, uiVars, chatVars, pollVars, reactionVars, statsVars,
                   isConnected, connectionError, loadPc, statsPc, viewVars, netVars,
                   searchQuery, contentItems, isLoading, requests>>

\* the display names of the other fans in the room
PeerNames == { <<"S", "a", "m">> }

\* payloads the channel can deliver: the events of peers and echoes of this
\* client's own events; id 0 is a payload whose id is missing
BroadcastPayloads ==
    { [id |-> i, username |-> u, text |-> <<"y", "o">>, type |-> t, media |-> NoMedia] :
        i \in 0..MaxClock, u \in PeerNames, t \in {"message"} }

\* SubscriptionNext without the ledger lookup of App.js:181
SubscriptionNextUnchecked(data) ==
    /\ connectPc = "subscribed"
    /\ data.id # 0 => Len(messages) < MaxMessages
    /\ IF data.id # 0
       THEN /\ processedMessageIds' = processedMessageIds \cup {data.id}
            /\ messages' = setState(messages, Append(messages, sanitizeMessageWithMedia(data)))
       ELSE UNCHANGED <<processedMessageIds, messages>>
    /\ UNCHANGED <<now, identityVars, uiVars, pollVars, reactionVars, connVars, statsVars,
                   loadPc, statsPc, viewVars, timerVars,
                   netVars, lifeVars, pickerVars>>

\* App.js:177-201
SubscriptionNext(data) ==
    /\ connectPc = "subscribed"
    /\ (data.id # 0 /\ data.id \notin processedMessageIds) => Len(messages) < MaxMessages
    /\ IF data.id # 0 /\ data.id \notin processedMessageIds
       THEN /\ processedMessageIds' = processedMessageIds \cup {data.id}
            /\ messages' = setState(messages, Append(messages, sanitizeMessageWithMedia(data)))
       ELSE UNCHANGED <<processedMessageIds, messages>>
    /\ UNCHANGED <<now, identityVars, uiVars, pollVars, reactionVars, connVars, statsVars,
                   loadPc, statsPc, viewVars, timerVars,
                   netVars, lifeVars, pickerVars>>

(***************************************************************************)
(* The history store.                                                      *)
(***************************************************************************)
HistoryItem(ts, name) ==
    [timestamp |-> ts, username |-> name, text |-> <<"g", "o">>, type |-> "message",
     media |-> NoMedia]

\* what getMessages can resolve to, newest first; a failed fetch resolves to
\* the empty list (src/unnamed/part_006:42-52)
PersistedHistories ==
    { <<>>,
      << HistoryItem(2, <<"O", "'", "B">>), HistoryItem(1, <<"S", "a", "m">>) >> }

Reverse(s) == [i \in 1..Len(s) |-> s[Len(s) + 1 - i]]

\* App.js:236-248
formatPersisted(persistedMessages) ==
    Reverse([i \in 1..Len(persistedMessages) |->
        sanitizeMessageWithMedia(
            [id |-> persistedMessages[i].timestamp,
             username |-> persistedMessages[i].username,
             text |-> persistedMessages[i].text,
             type |-> persistedMessages[i].type,
             media |-> persistedMessages[i].media])])

\* App.js:230-257, from the point where getMessages resolves
LoadPersistedResolved(persistedMessages) ==
    /\ loadPc = "awaiting"
    /\ loadPc' = "done"
    /\ IF Len(persistedMessages) > 0
       THEN LET formattedMessages == formatPersisted(persistedMessages)
            IN  /\ processedMessageIds' = processedMessageIds \cup
                       { formattedMessages[i].id : i \in 1..Len(formattedMessages) }
                /\ messages' = setState(messages, formattedMessages)
       ELSE UNCHANGED <<processedMessageIds, messages>>
    /\ UNCHANGED <<now, identityVars, uiVars, pollVars, reactionVars, connVars, statsVars,
                   statsPc, viewVars, timerVars,
                   netVars, lifeVars, pickerVars>>

(***************************************************************************)
(* User stats: the fetch, the award and its notifications.                 *)
(***************************************************************************)
\* a JavaScript value placed in a request body
JsNumber(n) == [t |-> "number", n |-> n, s |-> <<>>]
JsString(str) == [t |-> "string", n |-> 0, s |-> str]

\* what getUserStats can resolve to: null (no record, or a failed fetch,
\* userStatsService.js:88-92) or the stored record
NoStats == [found |-> FALSE, xp |-> 0]
FetchedStats == {NoStats} \cup { [found |-> TRUE, xp |-> x] : x \in {0, 95} }

\* App.js:266-275, from the point where getUserStats resolves
InitUserStatsResolved(stats) ==
    /\ statsPc = "awaiting"
    /\ statsPc' = "done"
    /\ IF stats.found
       THEN userStats' = setState(userStats, [xp |-> stats.xp,
                                              level |-> calculateLevel(stats.xp),
                                              currentStreak |-> 0])
       ELSE UNCHANGED userStats
    /\ UNCHANGED <<now, identityVars, uiVars, chatVars, pollVars, reactionVars, connVars,
                   toasts, levelUpTimers, xpRequests, loadPc, viewVars, timerVars,
                   netVars, lifeVars, pickerVars>>

\* App.js:284-286; the removal scheduled at 288-290 is ToastTimeout
showToast(list, message, type) == Append(list, [id |-> now, message |-> message, type |-> type])

\* App.js:288-290
ToastTimeout(id) ==
    /\ mounted
    /\ \E i \in 1..Len(toasts) : toasts[i].id = id
    /\ toasts' = SelectSeq(toasts, LAMBDA t : t.id # id)
    /\ UNCHANGED <<now, identityVars, uiVars, chatVars, pollVars, reactionVars, connVars,
                   userStats, levelUpTimers, xpRequests, loadPc, statsPc, viewVars, timerVars,
                   netVars, lifeVars, pickerVars>>

\* App.js:332-334, the callback of setTimeout(..., 100)
LevelUpTimerFires ==
    /\ levelUpTimers # <<>>
    /\ toasts' = setState(toasts, showToast(toasts, Head(levelUpTimers).name, "levelup"))
    /\ levelUpTimers' = Tail(levelUpTimers)
    /\ UNCHANGED <<now, identityVars, uiVars, chatVars, pollVars, reactionVars, connVars,
                   userStats, xpRequests, loadPc, statsPc, viewVars, timerVars,
                   netVars, lifeVars, pickerVars>>

\* src/src/services/userStatsService.js:135-146: the body of the POST
incrementXP(clerkUserId, amount) == [clerkUserId |-> clerkUserId, amount |-> amount]

\* previousLevelOf reading the level of the first render
previousLevelInitial(stats) == LEVELS[1]

\* the level an award compares the new level with, App.js:313: the level of
\* the render the handler was created in, which is the current one
previousLevelOf(stats) == stats.level

\* awardedLevel keeping the level of the previous state
awardedLevelStale(newXP) == userStats.level

\* what the optimistic update stores as the level, App.js:328
awardedLevel(newXP) == calculateLevel(newXP)

\* App.js:308-349
awardXPForMessage(newMessages) ==
    IF user.id = ""
    THEN UNCHANGED statsVars
    ELSE LET previousLevel == previousLevelOf(userStats)
             streak == calculateCurrentStreak(newMessages, currentUsername)
             streakBonus == calculateStreakBonus(streak)
             totalXP == XP_message + streakBonus
             newXP == userStats.xp + totalXP
             newLevel == awardedLevel(newXP)
         IN  /\ toasts' = IF streakBonus > 0
                          THEN showToast(toasts, "Heating Up!", "streak")
                          ELSE toasts
             /\ levelUpTimers' = IF newLevel.level > previousLevel.level
                                 THEN Append(levelUpTimers, newLevel)
                                 ELSE levelUpTimers
             /\ userStats' = [xp |-> newXP, level |-> newLevel, currentStreak |-> streak]
             \* App.js:346 calls incrementXP(clerkUserId, currentUsername, totalXP);
             \* incrementXP takes (clerkUserId, amount), so totalXP is dropped
             /\ xpRequests' = Append(xpRequests,
                                     incrementXP(user.id, JsString(currentUsername)))

(***************************************************************************)
(* Calls to the channel and to the history store.                          *)
(***************************************************************************)
\* an events.post promise: the event posted and, in save, the messages the
\* caller passes to saveMessage once the promise has settled
PostCall(event, save) == [op |-> "post", event |-> event, save |-> save]

\* a saveMessage promise (src/unnamed/part_006:7-37)
SaveCall(message) == [op |-> "save", event |-> message, save |-> <<>>]

\* PostSettled undoing the optimistic update of the event's sender
PostSettledRollback(call) ==
    /\ BagIn(call, inFlight)
    /\ call.op = "post"
    /\ inFlight' = (inFlight (-) SetToBag({call})) (+)
                       SetToBag({ SaveCall(call.save[i]) : i \in 1..Len(call.save) })
    /\ messages' = SelectSeq(messages, LAMBDA m : m.id # call.event.id)
    /\ processedMessageIds' = processedMessageIds \ {call.event.id}
    /\ UNCHANGED <<now, identityVars, uiVars, pollVars, reactionVars, connVars,
                   statsVars, loadPc, statsPc, viewVars, timerVars, lifeVars,
                   pickerVars>>

\* what follows an events.post promise, fulfilled or rejected: App.js:389-401
\* (the catch logs, then saveMessage is called), 532-536 and 589
PostSettled(call) ==
    /\ BagIn(call, inFlight)
    /\ call.op = "post"
    /\ inFlight' = (inFlight (-) SetToBag({call})) (+)
                       SetToBag({ SaveCall(call.save[i]) : i \in 1..Len(call.save) })
    /\ UNCHANGED <<now, identityVars, uiVars, chatVars, pollVars, reactionVars, connVars,
                   statsVars, loadPc, statsPc, viewVars, timerVars, lifeVars,
                   pickerVars>>

\* App.js:390-391: the promise of events.post is fulfilled
PostResolved(call) == PostSettled(call)

\* App.js:392-394, 534-536 and 589: the promise of events.post is rejected
PostRejected(call) == PostSettled(call)

\* src/unnamed/part_006:24-36: the fetch of saveMessage settles; a failure
\* is logged and the promise is fulfilled with null
SaveSettled(call) ==
    /\ BagIn(call, inFlight)
    /\ call.op = "save"
    /\ inFlight' = inFlight (-) SetToBag({call})
    /\ UNCHANGED <<now, identityVars, uiVars, chatVars, pollVars, reactionVars, connVars,
                   statsVars, loadPc, statsPc, viewVars, timerVars, lifeVars,
                   pickerVars>>

\* src/unnamed/part_006:30-32
SaveResolved(call) == SaveSettled(call)

\* src/unnamed/part_006:33-36
SaveRejected(call) == SaveSettled(call)

(***************************************************************************)
(* Chat messages.                                                          *)
(***************************************************************************)
\* what the user can type
TypedTexts == { <<" ", "<", "3">> }

\* App.js:355-357
handleMessageChange(text) ==
    /\ mounted
    /\ currentMessage # text
    /\ currentMessage' = text
    /\ UNCHANGED <<now, identityVars, showAuthModal, showCreatePoll, showKlipyPicker,
                   chatVars, pollVars, reactionVars, connVars, statsVars, loadPc, statsPc, viewVars,
                   timerVars,
                   netVars, lifeVars, pickerVars>>

\* App.js:359-402, in a model that lets the history grow to cap entries
handleSendMessageWithin(cap) ==
    /\ mounted
    /\ IF ~isSignedIn
       THEN /\ showAuthModal' = TRUE
            /\ UNCHANGED <<currentMessage, chatVars, statsVars, netVars>>
       ELSE LET sanitizedText == normalizeMessageInput(currentMessage)
                messageId == now
                newMessage == [id |-> messageId,
                               username |-> sanitizeText(currentUsername),
                               text |-> sanitizedText,
                               type |-> "message",
                               media |-> NoMedia]
                updatedMessages == Append(messages, newMessage)
                \* App.js:396-401, called once the post has settled
                saved == [timestamp |-> messageId, username |-> currentUsername,
                          text |-> currentMessage, type |-> "message", media |-> NoMedia]
            IN  IF sanitizedText = <<>>
                THEN UNCHANGED <<showAuthModal, currentMessage, chatVars, statsVars, netVars>>
                ELSE /\ Len(messages) < cap
                     /\ currentMessage' = <<>>
                     /\ processedMessageIds' = processedMessageIds \cup {messageId}
                     /\ messages' = updatedMessages
                     /\ awardXPForMessage(updatedMessages)
                     /\ inFlight' = inFlight (+) SetToBag({PostCall(newMessage, <<saved>>)})
                     /\ UNCHANGED showAuthModal
    /\ UNCHANGED <<now, identityVars, showCreatePoll, showKlipyPicker, pollVars,
                   reactionVars, connVars, loadPc, statsPc, viewVars, timerVars,
                   lifeVars, pickerVars>>

\* App.js:359-402
handleSendMessage == handleSendMessageWithin(MaxMessages)

\* App.js:404-414
addSystemMessage(list, text) ==
    Append(list, [id |-> now, username |-> <<"S", "y", "s", "t", "e", "m">>,
                  text |-> text, type |-> "system", media |-> NoMedia])

(***************************************************************************)
(* The GIF picker.                                                         *)
(***************************************************************************)
\* the request searchContent(query) issues
Search(query) == [trending |-> FALSE, query |-> query]

\* the items a request is answered with: named by the request
resultsOf(request) == <<request>>

RemoveAt(s, k) == [i \in 1..(Len(s) - 1) |-> IF i < k THEN s[i] ELSE s[i + 1]]

\* src/unnamed/part_012:166-172, up to the await
loadTrendingContent ==
    /\ isLoading' = TRUE
    /\ requests' = Append(requests, Trending)

\* src/unnamed/part_012:186-192, up to the await
performSearch(query) ==
    /\ isLoading' = TRUE
    /\ requests' = Append(requests, Search(query))

\* the picker's effects after a render with isOpen true
\* (src/unnamed/part_012:128-132)
PickerOpened ==
    IF contentItems = <<>>
    THEN loadTrendingContent /\ UNCHANGED <<searchQuery, contentItems, debounceTimer>>
    ELSE UNCHANGED pickerVars

\* the picker's effects after a render with isOpen false: the reset of
\* src/unnamed/part_012:240-246 and, when that changes the query, the effect
\* of 138-161 with the empty query
PickerClosed ==
    /\ searchQuery' = <<>>
    /\ contentItems' = <<>>
    /\ IF searchQuery # <<>>
       THEN debounceTimer' = NoTimer /\ loadTrendingContent
       ELSE UNCHANGED <<debounceTimer, isLoading, requests>>

\* App.js:552-559
handleOpenKlipyPicker ==
    /\ mounted
    /\ ~showKlipyPicker
    /\ IF ~isSignedIn
       THEN showAuthModal' = TRUE /\ UNCHANGED <<showKlipyPicker, pickerVars>>
       ELSE /\ Len(requests) < MaxRequests
            /\ showKlipyPicker' = TRUE
            /\ PickerOpened
            /\ UNCHANGED showAuthModal
    /\ UNCHANGED <<now, identityVars, currentMessage, showCreatePoll, chatVars, pollVars,
                   reactionVars, connVars, statsVars, loadPc, statsPc, viewVars, timerVars,
                   netVars, lifeVars>>

\* App.js:561-563
handleCloseKlipyPicker ==
    /\ mounted
    /\ showKlipyPicker
    /\ Len(requests) < MaxRequests
    /\ showKlipyPicker' = FALSE
    /\ PickerClosed
    /\ UNCHANGED <<now, identityVars, showAuthModal, currentMessage, showCreatePoll,
                   chatVars, pollVars, reactionVars, connVars, statsVars, loadPc, statsPc,
                   viewVars, timerVars, netVars, lifeVars>>

\* src/unnamed/part_012:206-208 with the effect of 138-161 that the new
\* query triggers
handleSearchChange(text) ==
    /\ mounted
    /\ showKlipyPicker
    /\ text # searchQuery
    /\ searchQuery' = text
    /\ IF trimEnd(trimStart(text)) = <<>>
       THEN /\ Len(requests) < MaxRequests
            /\ debounceTimer' = NoTimer
            /\ loadTrendingContent
       ELSE /\ debounceTimer' = [set |-> TRUE, query |-> text]
            /\ UNCHANGED <<isLoading, requests>>
    /\ UNCHANGED <<now, identityVars, uiVars, chatVars, pollVars, reactionVars, connVars,
                   statsVars, loadPc, statsPc, viewVars, timerVars, netVars, lifeVars,
                   contentItems>>

\* src/unnamed/part_012:151-153: the timeout of 500 ms expires
DebounceFires ==
    /\ debounceTimer.set
    /\ Len(requests) < MaxRequests
    /\ debounceTimer' = NoTimer
    /\ performSearch(debounceTimer.query)
    /\ UNCHANGED <<now, identityVars, uiVars, chatVars, pollVars, reactionVars, connVars,
                   statsVars, loadPc, statsPc, viewVars, timerVars, netVars, lifeVars,
                   searchQuery, contentItems>>

\* src/unnamed/part_012:173-175 and 193-195 with the finally of 178-180 and
\* 198-200: the k-th outstanding request is answered
RequestResolved(k) ==
    /\ k \in 1..Len(requests)
    /\ requests' = RemoveAt(requests, k)
    /\ contentItems' = setState(contentItems, resultsOf(requests[k]))
    /\ isLoading' = setState(isLoading, FALSE)
    /\ UNCHANGED <<now, identityVars, uiVars, chatVars, pollVars, reactionVars, connVars,
                   statsVars, loadPc, statsPc, viewVars, timerVars, netVars, lifeVars,
                   searchQuery, debounceTimer>>

\* src/unnamed/part_012:175-180 and 195-200: the k-th outstanding request
\* fails
RequestRejected(k) ==
    /\ k \in 1..Len(requests)
    /\ requests' = RemoveAt(requests, k)
    /\ isLoading' = setState(isLoading, FALSE)
    /\ UNCHANGED <<now, identityVars, uiVars, chatVars, pollVars, reactionVars, connVars,
                   statsVars, loadPc, statsPc, viewVars, timerVars, netVars, lifeVars,
                   searchQuery, contentItems, debounceTimer>>

\* the items the picker offers
PickerUrls == { <<"https:", "//", "static", ".", "klipy", ".", "com", "/", "g.gif">> }

\* App.js:565-603
handleSelectGif(url) ==
    /\ mounted
    /\ showKlipyPicker
    /\ Len(messages) < MaxMessages
    /\ LET gifData == [js |-> "object", type |-> "gif", url |-> url]
           messageId == now
           newMessage == [id |-> messageId,
                          username |-> sanitizeText(currentUsername),
                          text |-> <<>>,
                          type |-> "message",
                          media |-> gifData]
           \* App.js:592-598
           saved == [timestamp |-> messageId, username |-> currentUsername,
                     text |-> <<>>, type |-> "message", media |-> gifData]
       IN  /\ processedMessageIds' = processedMessageIds \cup {messageId}
           /\ messages' = Append(messages, newMessage)
           /\ awardXPForMessage(Append(messages, newMessage))
           /\ inFlight' = inFlight (+) SetToBag({PostCall(newMessage, <<>>)})
                              (+) SetToBag({SaveCall(saved)})
    /\ showKlipyPicker' = FALSE
    /\ PickerClosed
    /\ UNCHANGED <<now, identityVars, showAuthModal, currentMessage, showCreatePoll,
                   pollVars, reactionVars, connVars, loadPc, statsPc, viewVars, timerVars,
                   lifeVars>>

(***************************************************************************)
(* Reactions.                                                              *)
(***************************************************************************)
\* ReactionButtons with a button for a symbol that is not one of the five
ReactionButtonsAny == {"fire", "poop"}

\* the buttons of the reaction bar (src/src/components/ReactionBar.js:16-22)
\* that the user presses
ReactionButtons == {"fire"}

\* the value of undefined + 1
NaN == -1

\* App.js:516-519: { ...prev, [emoji]: prev[emoji] + 1 }
tallyReaction(counts, emoji) ==
    [e \in DOMAIN counts \cup {emoji} |->
        IF e # emoji THEN counts[e]
        ELSE IF emoji \in DOMAIN counts /\ counts[emoji] # NaN THEN counts[emoji] + 1
        ELSE NaN]

\* App.js:507-538
handleReaction(emoji) ==
    /\ mounted
    /\ Len(messages) < MaxMessages
    /\ LET messageId == now
           reactionMessage == [id |-> messageId, username |-> currentUsername,
                               text |-> <<emoji>>, type |-> "reaction",
                               media |-> NoMedia]
       IN  /\ reactionTimestamps' =
                  Append(reactionTimestamps, [emoji |-> emoji, timestamp |-> now])
           /\ reactionCounts' = tallyReaction(reactionCounts, emoji)
           /\ processedMessageIds' = processedMessageIds \cup {messageId}
           /\ messages' = Append(messages, reactionMessage)
           /\ inFlight' = inFlight (+) SetToBag({PostCall(reactionMessage, <<>>)})
    /\ UNCHANGED <<now, identityVars, uiVars, pollVars, connVars, statsVars, loadPc, statsPc,
                   viewVars, timerVars, lifeVars, pickerVars>>

\* the clock reaches the moment the interval callback is due; the callback
\* is taken to run on time, so the clock does not pass that moment before
\* DecayTick has run
AwaitDecay ==
    /\ now < decayDue
    /\ decayDue <= 1 + DecayInterval * MaxTicks
    /\ now' = decayDue
    /\ UNCHANGED <<identityVars, uiVars, chatVars, pollVars, reactionVars, connVars,
                   statsVars, loadPc, statsPc, viewVars, timerVars,
                   netVars, lifeVars, pickerVars>>

\* the entries of list the recount of App.js:139 keeps at time t, with >=
\* in place of >
recentInclusive(list, t) == SelectSeq(list, LAMBDA r : r.timestamp >= t - DecayWindow)

\* App.js:135 and 139: the entries of list newer than thirtySecondsAgo
recent(list, t) == SelectSeq(list, LAMBDA r : r.timestamp > t - DecayWindow)

\* newCounts counting the list as it was before the filter of App.js:139
newCountsUnfiltered(list) ==
    [e \in EMOJI |->
        Cardinality({ i \in 1..Len(reactionTimestamps) : reactionTimestamps[i].emoji = e })]

\* App.js:141-152: the recount over the five keys
newCounts(list) ==
    [e \in EMOJI |-> Cardinality({ i \in 1..Len(list) : list[i].emoji = e })]

\* App.js:134-160: one run of the setInterval callback
DecayTick ==
    /\ now = decayDue
    /\ decayDue' = decayDue + DecayInterval
    /\ reactionTimestamps' = recent(reactionTimestamps, now)
    /\ reactionCounts' = newCounts(recent(reactionTimestamps, now))
    /\ UNCHANGED <<now, identityVars, uiVars, chatVars, pollVars, connVars, statsVars,
                   loadPc, statsPc, viewVars,
                   netVars, lifeVars, pickerVars>>

\* reactions of peers the channel can deliver, one of them for a symbol
\* that is not one of the five
PeerReactions ==
    { [id |-> 1, username |-> <<"S", "a", "m">>, text |-> <<e>>, type |-> "reaction",
       media |-> NoMedia] : e \in {"poop"} }

(***************************************************************************)
(* The poll sidebar (src/unnamed/part_010): what a poll card displays.     *)
(***************************************************************************)
\* Math.round of the quotient num / den of two non-negative integers,
\* den > 0: the nearest integer, a half rounding up
MathRound(num, den) == (2 * num + den) \div (2 * den)

\* calculatePercentages with Math.floor in place of Math.round
calculatePercentagesFloor(poll) ==
    IF poll.totalVotes = 0
    THEN [k \in 1..Len(poll.options) |-> 0]
    ELSE [k \in 1..Len(poll.options) |-> (poll.options[k].votes * 100) \div poll.totalVotes]

\* src/unnamed/part_010:35-44: the percentage shown for each option
calculatePercentages(poll) ==
    IF poll.totalVotes = 0
    THEN [k \in 1..Len(poll.options) |-> 0]
    ELSE [k \in 1..Len(poll.options) |->
             MathRound(poll.options[k].votes * 100, poll.totalVotes)]

\* the null of src/unnamed/part_010:52 and 54; option ids start at 1
Null == 0

RECURSIVE winnerIdScan(_, _, _, _)
winnerIdScan(options, k, maxVotes, winnerId) ==
    IF k > Len(options) THEN winnerId
    ELSE IF options[k].votes > maxVotes
         THEN winnerIdScan(options, k + 1, options[k].votes, options[k].id)
         ELSE winnerIdScan(options, k + 1, maxVotes, winnerId)

\* src/unnamed/part_010:51-62
getWinningOptionId(poll) ==
    IF poll.totalVotes = 0 THEN Null ELSE winnerIdScan(poll.options, 1, 0, Null)

\* src/unnamed/part_010:88-92: what a poll card shows; the card of a closed
\* poll is the one drawn when the poll is expanded (part_010:209)
renderPollCard(poll) ==
    [optionsWithPercentage |-> calculatePercentages(poll),
     winningOptionId |-> IF poll.status = "closed" THEN getWinningOptionId(poll) ELSE Null]

\* the cards of the sidebar after a render with the polls pollList
PollSidebar(pollList) == [i \in 1..Len(pollList) |-> renderPollCard(pollList[i])]

(***************************************************************************)
(* Polls.                                                                  *)
(***************************************************************************)
\* App.js:420-427
handleOpenCreatePoll ==
    /\ mounted
    /\ ~showCreatePoll
    /\ IF ~isSignedIn
       THEN showAuthModal' = TRUE /\ UNCHANGED showCreatePoll
       ELSE showCreatePoll' = TRUE /\ UNCHANGED showAuthModal
    /\ UNCHANGED <<now, identityVars, currentMessage, showKlipyPicker, chatVars, pollVars,
                   reactionVars, connVars, statsVars, loadPc, statsPc, viewVars, timerVars,
                   netVars, lifeVars, pickerVars>>

\* what the create-poll form can submit (src/unnamed/part_011:66-83)
PollQuestions == { <<"W", "h", "o", "?">> }
PollOptionTexts == { << <<"A">>, <<"B">> >>, << <<"A">>, <<"B">>, <<"C">> >> }

\* the option ids such a poll can have (App.js:437-441)
PollOptionIds == UNION { DOMAIN optionTexts : optionTexts \in PollOptionTexts }

\* `poll-${Date.now()}`, App.js:435
PollId(t) == <<"poll-", t>>

\* App.js:433-452, submitted from the open form
handleCreatePoll(question, optionTexts) ==
    /\ mounted
    /\ showCreatePoll
    /\ Len(polls) < MaxPolls
    /\ Len(messages) < MaxMessages
    /\ LET newPoll == [id |-> PollId(now),
                       question |-> question,
                       options |-> [i \in 1..Len(optionTexts) |->
                                       [id |-> i, text |-> optionTexts[i], votes |-> 0]],
                       totalVotes |-> 0,
                       createdBy |-> currentUsername,
                       status |-> "active"]
       IN  polls' = <<newPoll>> \o polls
    /\ showCreatePoll' = FALSE
    /\ messages' = addSystemMessage(messages, <<"New poll created: ">> \o question)
    /\ pollCards' = PollSidebar(polls')
    /\ UNCHANGED <<now, identityVars, showAuthModal, currentMessage, showKlipyPicker,
                   processedMessageIds, userVotes, reactionVars, connVars, statsVars,
                   loadPc, statsPc, timerVars,
                   netVars, lifeVars, pickerVars>>

\* App.js:454-479
handleVote(pollId, optionId) ==
    IF ~isSignedIn
    THEN showAuthModal' = TRUE /\ UNCHANGED pollVars
    ELSE /\ userVotes' = [p \in DOMAIN userVotes \cup {pollId} |->
                             IF p = pollId THEN optionId ELSE userVotes[p]]
         /\ polls' = [i \in 1..Len(polls) |->
               IF polls[i].id = pollId
               THEN [polls[i] EXCEPT
                       !.options = [k \in 1..Len(polls[i].options) |->
                           IF polls[i].options[k].id = optionId
                           THEN [polls[i].options[k] EXCEPT !.votes = @ + 1]
                           ELSE polls[i].options[k]],
                       !.totalVotes = @ + 1]
               ELSE polls[i]]
         /\ UNCHANGED showAuthModal

\* canVote without the lookup in the vote record
canVoteIgnoringRecord(poll) == poll.status # "closed"

\* src/unnamed/part_010:103 and 114: the guard of an option button
canVote(poll) == poll.status # "closed" /\ poll.id \notin DOMAIN userVotes

\* src/unnamed/part_010:112-118: a click on option optionId of the i-th poll
PollOptionClick(i, optionId) ==
    /\ mounted
    /\ i \in 1..Len(polls)
    /\ optionId \in 1..Len(polls[i].options)
    /\ IF canVote(polls[i])
       THEN handleVote(polls[i].id, optionId)
       ELSE UNCHANGED <<showAuthModal, pollVars>>
    /\ UNCHANGED <<now, identityVars, currentMessage, showCreatePoll, showKlipyPicker,
                   chatVars, reactionVars, connVars, statsVars, loadPc, statsPc, timerVars,
                   netVars, lifeVars, pickerVars>>
    /\ pollCards' = PollSidebar(polls')

RECURSIVE winnerScan(_, _, _)
winnerScan(options, k, winner) ==
    IF k > Len(options) THEN winner
    ELSE winnerScan(options, k + 1,
                    IF options[k].votes > winner.votes THEN options[k] ELSE winner)

\* the text of App.js:493 for a poll and the option found as its winner
closeAnnouncement(poll, winner) ==
    <<"Poll closed! ">> \o poll.question \o <<" - Winner: ">>
        \o winner.text \o <<" (", ToString(winner.votes), " votes)">>

RECURSIVE closeScan(_, _, _)
\* the system messages App.js:492-494 adds while the polls are mapped
closeScan(pollId, i, list) ==
    IF i > Len(polls) THEN list
    ELSE IF polls[i].id = pollId
         THEN LET winner == winnerScan(polls[i].options, 1, polls[i].options[1])
              IN  closeScan(pollId, i + 1,
                      addSystemMessage(list, closeAnnouncement(polls[i], winner)))
         ELSE closeScan(pollId, i + 1, list)

\* App.js:481-501
handleClosePoll(pollId) ==
    /\ messages' = closeScan(pollId, 1, messages)
    /\ polls' = [i \in 1..Len(polls) |->
                    IF polls[i].id = pollId
                    THEN [polls[i] EXCEPT !.status = "closed"]
                    ELSE polls[i]]

\* src/unnamed/part_010:153-163: the Close Poll button of the i-th poll,
\* rendered for the creator of an active poll
ClosePollClick(i) ==
    /\ mounted
    /\ i \in 1..Len(polls)
    /\ polls[i].status # "closed"
    /\ polls[i].createdBy = currentUsername
    /\ Len(messages) < MaxMessages + MaxPolls
    /\ handleClosePoll(polls[i].id)
    /\ pollCards' = PollSidebar(polls')
    /\ UNCHANGED <<now, identityVars, uiVars, processedMessageIds, userVotes,
                   reactionVars, connVars, statsVars, loadPc, statsPc, timerVars,
                   netVars, lifeVars, pickerVars>>

(***************************************************************************)
(* The session.  Its handlers fall into three groups by the state they     *)
(* write; each specification below runs one group together with every      *)
(* handler whose writes that group reads.                                  *)
(***************************************************************************)
\* every handler that appends to or replaces the message history, with the
\* handlers that enable them
ChatNext ==
    \/ Tick
    \/ \E account \in Accounts : SignIn(account)
    \/ ConnectResolved
    \/ \E data \in BroadcastPayloads : SubscriptionNext(data)
    \/ \E persistedMessages \in PersistedHistories :
          LoadPersistedResolved(persistedMessages)
    \/ \E text \in TypedTexts : handleMessageChange(text)
    \/ handleSendMessage
    \/ handleOpenKlipyPicker
    \/ \E url \in PickerUrls : handleSelectGif(url)
    \/ \E emoji \in ReactionButtons : handleReaction(emoji)
    \/ handleOpenCreatePoll
    \/ \E question \in PollQuestions, optionTexts \in PollOptionTexts :
          handleCreatePoll(question, optionTexts)
    \/ \E i \in 1..MaxPolls : ClosePollClick(i)

ChatSpec == Init /\ [][ChatNext]_vars

\* where the user name plays no part, one account signs in
SingleAccount == { account \in Accounts : account.id = "user_bob" }

\* the broadcast subscription with every handler that writes the
\* deduplication ledger
LedgerNext ==
    \/ Tick
    \/ \E account \in SingleAccount : SignIn(account)
    \/ ConnectResolved
    \/ \E data \in BroadcastPayloads : SubscriptionNext(data)
    \/ \E persistedMessages \in PersistedHistories :
          LoadPersistedResolved(persistedMessages)
    \/ \E text \in TypedTexts : handleMessageChange(text)
    \/ handleSendMessage
    \/ handleOpenKlipyPicker
    \/ \E url \in PickerUrls : handleSelectGif(url)
    \/ \E emoji \in ReactionButtons : handleReaction(emoji)

LedgerSpec == Init /\ [][LedgerNext]_vars

\* every handler that writes the user stats or its notifications, with the
\* handlers that change the history the streak is computed from
StatsNext ==
    \/ \E account \in Accounts : SignIn(account)
    \/ ConnectResolved
    \/ \E data \in BroadcastPayloads : SubscriptionNext(data)
    \/ \E persistedMessages \in PersistedHistories :
          LoadPersistedResolved(persistedMessages)
    \/ \E stats \in FetchedStats : InitUserStatsResolved(stats)
    \/ \E id \in 1..MaxClock : ToastTimeout(id)
    \/ LevelUpTimerFires
    \/ \E text \in TypedTexts : handleMessageChange(text)
    \/ handleSendMessage
    \/ handleOpenKlipyPicker
    \/ \E url \in PickerUrls : handleSelectGif(url)

StatsSpec == Init /\ [][StatsNext]_vars

\* every handler that writes the polls or the vote record
PollNext ==
    \/ Tick
    \/ \E account \in Accounts : SignIn(account)
    \/ \E stats \in FetchedStats : InitUserStatsResolved(stats)
    \/ handleOpenCreatePoll
    \/ \E question \in PollQuestions, optionTexts \in PollOptionTexts :
          handleCreatePoll(question, optionTexts)
    \/ \E i \in 1..MaxPolls, optionId \in PollOptionIds : PollOptionClick(i, optionId)
    \/ \E i \in 1..MaxPolls : ClosePollClick(i)

PollSpec == Init /\ [][PollNext]_vars

\* the handlers that write the polls or the vote record, with the handlers
\* that enable them
VoteNext ==
    \/ Tick
    \/ \E account \in Accounts : SignIn(account)
    \/ handleOpenCreatePoll
    \/ \E question \in PollQuestions, optionTexts \in PollOptionTexts :
          handleCreatePoll(question, optionTexts)
    \/ \E i \in 1..MaxPolls, optionId \in PollOptionIds : PollOptionClick(i, optionId)
    \/ \E i \in 1..MaxPolls : ClosePollClick(i)

VoteSpec == Init /\ [][VoteNext]_vars

\* the largest vote count of an option in the tallies the sidebar is given
MaxVotes == 3

RECURSIVE SumVotes(_)
SumVotes(counts) == IF counts = <<>> THEN 0 ELSE Head(counts) + SumVotes(Tail(counts))

\* an option list with a vote count for each of its options
TalliedOptions ==
    UNION { { [k \in 1..Len(optionTexts) |->
                 [id |-> k, text |-> optionTexts[k], votes |-> votes[k]]] :
              votes \in [1..Len(optionTexts) -> 0..MaxVotes] } :
            optionTexts \in PollOptionTexts }

\* the tallies a poll can show: one poll of Bob's, active or closed, with
\* every distribution of votes over its options
TallyPolls ==
    { << [id |-> PollId(1),
          question |-> question,
          options |-> options,
          totalVotes |-> SumVotes([k \in 1..Len(options) |-> options[k].votes]),
          createdBy |-> <<"B", "o", "b">>,
          status |-> status] >> :
        question \in PollQuestions, status \in {"active", "closed"},
        options \in TalliedOptions }

\* the sidebar rendering a poll with an arbitrary tally
TallyInit ==
    /\ SessionInit
    /\ \E tally \in TallyPolls :
          /\ polls = tally
          /\ pollCards = PollSidebar(tally)

TallyNext ==
    \/ \E account \in Accounts : SignIn(account)
    \/ \E i \in 1..MaxPolls, optionId \in PollOptionIds : PollOptionClick(i, optionId)
    \/ \E i \in 1..MaxPolls : ClosePollClick(i)

TallySpec == TallyInit /\ [][TallyNext]_vars

\* the handlers that write the reaction counts, the clock they read, and the
\* delivery of a peer's reaction
ReactionNext ==
    \/ Tick
    \/ AwaitDecay
    \/ DecayTick
    \/ \E emoji \in ReactionButtons : handleReaction(emoji)
    \/ ConnectResolved
    \/ \E data \in PeerReactions : SubscriptionNext(data)

ReactionSpec == Init /\ [][ReactionNext]_vars

\* the URLs of the validation scenario and of the other ways to fail
GiphyUrl == <<"https:", "//", "media", ".", "giphy", ".", "com", "/", "x.gif">>
GiphyHttpUrl == <<"http:", "//", "media", ".", "giphy", ".", "com", "/", "x.gif">>
EvilUrl == <<"https:", "//", "evil", ".", "example", ".", "com", "/", "x.gif">>
SubdomainUrl == <<"https:", "//", "a", ".", "tenor", ".", "com", "/", "x.gif">>
LookalikeUrl == <<"https:", "//", "evilgiphy", ".", "com", "/", "x.gif">>
NotAUrl == <<"x.gif">>

Gif(url) == [js |-> "object", type |-> "gif", url |-> url]

\* the media field of an inbound event: absent, not an object, of another
\* type, without URL, or a gif with one of the URLs above
InboundMedia ==
    { NoMedia,
      [js |-> "string", type |-> "", url |-> <<>>],
      [js |-> "object", type |-> "image", url |-> GiphyUrl],
      Gif(<<>>) }
    \cup { Gif(url) : url \in {GiphyUrl, GiphyHttpUrl, EvilUrl, SubdomainUrl, LookalikeUrl,
                                NotAUrl} }

\* the text of an inbound event with that media field: an event with an
\* attachment is a GIF-only message (App.js:574), any other has a body
InboundText(media) == IF media = NoMedia THEN <<"y", "o", "!">> ELSE <<>>

\* the ids of those events: the id of this client's own sends, which are
\* all made at the first moment here, and one no send of this client has
MediaIds == {1, 2}

\* events with a media field the channel can deliver
MediaPayloads ==
    { [id |-> i, username |-> u, text |-> InboundText(media), type |-> "message",
       media |-> media] :
        i \in MediaIds, u \in PeerNames, media \in InboundMedia }

\* stored histories of one event with a media field
MediaHistories ==
    { << [timestamp |-> 1, username |-> u, text |-> InboundText(media),
          type |-> "message", media |-> media] >> :
        u \in PeerNames, media \in InboundMedia }

\* what the media search can return for the item the user selects
\* (src/src/services/klipyService.js:131-147 passes the URL of the response on)
SearchResultUrls == PickerUrls \cup {GiphyHttpUrl, EvilUrl}

\* the three ways an event with a media field enters the history
MediaNext ==
    \/ \E account \in SingleAccount : SignIn(account)
    \/ ConnectResolved
    \/ \E data \in MediaPayloads : SubscriptionNext(data)
    \/ \E persistedMessages \in MediaHistories : LoadPersistedResolved(persistedMessages)
    \/ handleOpenKlipyPicker
    \/ \E url \in SearchResultUrls : handleSelectGif(url)

MediaSpec == Init /\ [][MediaNext]_vars

\* the handlers gated on isSignedIn, with the identity provider and the
\* handlers that enable them
GateNext ==
    \/ Tick
    \/ \E account \in Accounts : SignIn(account)
    \/ SignOut
    \/ \E text \in TypedTexts : handleMessageChange(text)
    \/ handleSendMessage
    \/ handleOpenCreatePoll
    \/ \E question \in PollQuestions, optionTexts \in PollOptionTexts :
          handleCreatePoll(question, optionTexts)
    \/ \E i \in 1..MaxPolls, optionId \in PollOptionIds : PollOptionClick(i, optionId)

GateSpec == Init /\ [][GateNext]_vars

\* the local sends with the ways their posts and saves can settle
NetNext ==
    \/ Tick
    \/ \E account \in SingleAccount : SignIn(account)
    \/ \E text \in TypedTexts : handleMessageChange(text)
    \/ handleSendMessage
    \/ handleOpenKlipyPicker
    \/ \E url \in PickerUrls : handleSelectGif(url)
    \/ \E emoji \in ReactionButtons : handleReaction(emoji)
    \/ \E call \in BagToSet(inFlight) : PostResolved(call)
    \/ \E call \in BagToSet(inFlight) : PostRejected(call)
    \/ \E call \in BagToSet(inFlight) : SaveResolved(call)
    \/ \E call \in BagToSet(inFlight) : SaveRejected(call)

NetSpec == Init /\ [][NetNext]_vars

\* the calls to the channel and to the stores with the ways they can fail
FailNext ==
    \/ \E account \in Accounts : SignIn(account)
    \/ ConnectResolved
    \/ ConnectRejected
    \/ SubscriptionError
    \/ \E persistedMessages \in PersistedHistories :
          LoadPersistedResolved(persistedMessages)
    \/ \E stats \in FetchedStats : InitUserStatsResolved(stats)
    \/ \E text \in TypedTexts : handleMessageChange(text)
    \/ handleSendMessage
    \/ \E emoji \in ReactionButtons : handleReaction(emoji)
    \/ \E call \in BagToSet(inFlight) : PostResolved(call)
    \/ \E call \in BagToSet(inFlight) : PostRejected(call)
    \/ \E call \in BagToSet(inFlight) : SaveResolved(call)
    \/ \E call \in BagToSet(inFlight) : SaveRejected(call)

FailSpec == Init /\ [][FailNext]_vars

\* the teardown of App with what its effects have started: the channel
\* connect, the subscription, the history load and the decay interval
TeardownNext ==
    \/ Unmount
    \/ ConnectResolved
    \/ ConnectRejected
    \/ SubscriptionError
    \/ \E data \in BroadcastPayloads : SubscriptionNext(data)
    \/ \E persistedMessages \in PersistedHistories :
          LoadPersistedResolved(persistedMessages)
    \/ AwaitDecay
    \/ DecayTick

TeardownSpec == Init /\ [][TeardownNext]_vars

\* a stored event of the given kind
StoredItem(ts, name, type) ==
    [timestamp |-> ts, username |-> name,
     text |-> IF type = "reaction" THEN <<"fire">> ELSE <<"g", "o">>,
     type |-> type, media |-> NoMedia]

\* the longest history the store returns here
MaxStored == 2

\* what getMessages can resolve to, newest first: up to MaxStored events of
\* Bob, Sam and the system, of every kind
StreakHistories ==
    UNION { { [i \in 1..n |-> StoredItem(n + 1 - i, who[i], kind[i])] :
                who \in [1..n -> {<<"B", "o", "b">>, <<"S", "a", "m">>}],
                kind \in [1..n -> {"message", "reaction", "system"}] } :
            n \in 0..MaxStored }

\* the sends that are awarded, after a history of every shape has been loaded
StreakNext ==
    \/ \E account \in Accounts : SignIn(account)
    \/ \E persistedMessages \in StreakHistories : LoadPersistedResolved(persistedMessages)
    \/ \E text \in TypedTexts : handleMessageChange(text)
    \/ handleSendMessage
    \/ \E emoji \in ReactionButtons : handleReaction(emoji)

StreakSpec == Init /\ [][StreakNext]_vars

\* the longest history of the runs below
MaxHistory == 11

\* stored histories that end in a run of Bob's messages, after a message of
\* Sam or after nothing
RunHistories ==
    { [i \in 1..n |-> StoredItem(n + 1 - i,
                                 IF first = "Sam" /\ i = n THEN <<"S", "a", "m">>
                                                           ELSE <<"B", "o", "b">>,
                                 "message")] :
        n \in 0..(MaxHistory - 1), first \in {"Sam", "Bob"} }

\* the awards for sends that continue a run of every length to MaxHistory
AwardNext ==
    \/ \E account \in Accounts : SignIn(account)
    \/ \E persistedMessages \in RunHistories : LoadPersistedResolved(persistedMessages)
    \/ \E text \in TypedTexts : handleMessageChange(text)
    \/ handleSendMessageWithin(MaxHistory)

AwardSpec == Init /\ [][AwardNext]_vars

\* the xp a stored record can hold: below, on and above every threshold
LevelXps == {-5, 0, 95, 99, 100, 299, 300, 599, 600, 995, 999, 1000, 4000}

LevelStats == {NoStats} \cup { [found |-> TRUE, xp |-> x] : x \in LevelXps }

\* the two places that compute the level: the stats fetch and the award
LevelNext ==
    \/ \E account \in Accounts : SignIn(account)
    \/ \E stats \in LevelStats : InitUserStatsResolved(stats)
    \/ LevelUpTimerFires
    \/ \E text \in TypedTexts : handleMessageChange(text)
    \/ handleSendMessage

LevelSpec == Init /\ [][LevelNext]_vars

\* what the user types into the search box of the picker
SearchTexts == { <<>>, <<"a">>, <<"a", "b">> }

\* the picker: its search box, its debounce timer and its requests, each of
\* which is answered
PickerNext ==
    \/ \E account \in Accounts : SignIn(account)
    \/ handleOpenKlipyPicker
    \/ handleCloseKlipyPicker
    \/ \E text \in SearchTexts : handleSearchChange(text)
    \/ DebounceFires
    \/ \E k \in 1..MaxRequests : RequestResolved(k)

PickerSpec == Init /\ [][PickerNext]_vars

Next == ChatNext \/ LedgerNext \/ StatsNext \/ PollNext \/ VoteNext \/ TallyNext
          \/ ReactionNext \/ MediaNext \/ GateNext \/ NetNext \/ FailNext
          \/ TeardownNext \/ StreakNext \/ AwardNext \/ LevelNext \/ PickerNext
          \/ (\E k \in 1..MaxRequests : RequestRejected(k))

Spec == Init /\ [][Next]_vars

(***************************************************************************)
(* Properties.                                                             *)
(***************************************************************************)
\* an entry the broadcast subscription appended: only SubscriptionNext
\* stores the text of a BroadcastPayloads element
IsDelivered(m) ==
    \E data \in BroadcastPayloads : data.id = m.id /\ m = sanitizeMessageWithMedia(data)

\* a step in which an XP award is made: every award issues one increment
\* request, and nothing else does
AwardStep == Len(xpRequests') = Len(xpRequests) + 1

Rank(xp) == calculateLevel(xp).level

\* C1: no two entries of the visible message history have the same id.
C1_UniqueIds ==
    \A i, j \in 1..Len(messages) : i # j => messages[i].id # messages[j].id

\* C2: the ledger never loses an id; a broadcast delivery whose id is in the
\* ledger leaves history and ledger unchanged, and one with a new id appends
\* the sanitized event once and adds its id to the ledger; hence a delivered
\* entry never follows an entry with the same id, and its id is in the ledger.
C2_DeliveryEffect ==
    \A data \in BroadcastPayloads :
        SubscriptionNext(data) =>
            IF data.id \in processedMessageIds
            THEN messages' = messages /\ processedMessageIds' = processedMessageIds
            ELSE data.id # 0 =>
                    /\ Len(messages') = Len(messages) + 1
                    /\ SubSeq(messages', 1, Len(messages)) = messages
                    /\ messages'[Len(messages')].id = data.id
                    /\ messages'[Len(messages')].text = sanitizeText(data.text)
                    /\ messages'[Len(messages')].username = sanitizeText(data.username)
                    /\ processedMessageIds' = processedMessageIds \cup {data.id}

C2_NoRedelivery ==
    \A j \in 1..Len(messages) :
        IsDelivered(messages[j]) =>
            /\ messages[j].id \in processedMessageIds
            /\ \A i \in 1..(j - 1) : messages[i].id # messages[j].id

C2_DedupedDelivery ==
    /\ []C2_NoRedelivery
    /\ [][processedMessageIds \subseteq processedMessageIds' /\ C2_DeliveryEffect]_vars

\* C2 witness: a delivered event stands in the history after another entry,
\* with its id in the ledger, while the subscription is still open.
C2_Witness ==
    /\ connectPc = "subscribed"
    /\ \E j \in 2..Len(messages) :
          IsDelivered(messages[j]) /\ messages[j].id \in processedMessageIds

\* C3: every step keeps the entries of the history, in their order.
C3_AppendOnly ==
    [][/\ Len(messages') >= Len(messages)
       /\ SubSeq(messages', 1, Len(messages)) = messages]_vars

\* C4: xp is non-negative and no step decreases it.
C4_XpMonotone == [][userStats.xp >= 0 /\ userStats'.xp >= userStats.xp]_vars

\* C5: the stored level is the tier the level table assigns to the stored xp.
C5_LevelDerived == userStats.level = calculateLevel(userStats.xp)

\* C5 witness: an award has moved the user into the second tier.
C5_Witness == Len(xpRequests) > 0 /\ userStats.xp >= 100 /\ userStats.level.level = 2

\* C6: an award schedules a level-up notification, for the tier of the new
\* xp, exactly when the rank for the xp after the award exceeds the rank for
\* the xp before it; otherwise it schedules none.
C6_LevelUpIff ==
    [][AwardStep =>
          IF Rank(userStats'.xp) > Rank(userStats.xp)
          THEN levelUpTimers' = Append(levelUpTimers, calculateLevel(userStats'.xp))
          ELSE levelUpTimers' = levelUpTimers]_vars

\* C6 witness: the award from 95 to 100 xp has scheduled the notification
\* for tier 2, and a later award inside tier 2 has added none.
C6_Witness ==
    /\ userStats.xp > 100
    /\ Len(xpRequests) >= 2
    /\ Len(levelUpTimers) + Len(SelectSeq(toasts, LAMBDA t : t.type = "levelup")) = 1

\* C7: a send that makes the user's run of consecutive messages k long
\* raises xp by 5 plus the milestone bonus for k and sets currentStreak to k.
C7_StreakAward ==
    [][AwardStep =>
          LET k == calculateCurrentStreak(messages', sanitizeText(currentUsername))
          IN  /\ userStats'.xp = userStats.xp + 5 + calculateStreakBonus(k)
              /\ userStats'.currentStreak = k]_vars

\* C8: creating a poll raises xp by 10 and casting a vote raises it by 5.
C8_PollXp ==
    [][/\ Len(polls') = Len(polls) + 1 => userStats'.xp = userStats.xp + 10
       /\ DOMAIN userVotes' # DOMAIN userVotes => userStats'.xp = userStats.xp + 5]_vars

\* C9: the increment request of an award carries the delta the award added
\* to the local xp.
C9_RequestAmount ==
    [][AwardStep =>
          xpRequests'[Len(xpRequests')].amount
              = JsNumber(userStats'.xp - userStats.xp)]_vars

\* C10: an entry of the vote record never changes or disappears, and a click
\* on an option of a poll that has an entry changes neither polls nor record
\* (stated as: a step that changes either is no such click).
C10_VoteOnce ==
    [][/\ \A p \in DOMAIN userVotes :
             p \in DOMAIN userVotes' /\ userVotes'[p] = userVotes[p]
       /\ <<polls, userVotes>>' # <<polls, userVotes>> =>
             \A i \in 1..Len(polls), optionId \in PollOptionIds :
                 polls[i].id \in DOMAIN userVotes => ~PollOptionClick(i, optionId)]_vars

\* C10 witness: the user has voted on a poll that is still active, so its
\* option buttons can still be clicked.
C10_Witness ==
    \E i \in 1..Len(polls) :
        /\ polls[i].id \in DOMAIN userVotes
        /\ polls[i].status = "active"
        /\ polls[i].totalVotes = 1

\* the index in polls' of the poll at index i of polls: handleCreatePoll
\* puts a new poll in front, and no handler removes one
After(i) == i + Len(polls') - Len(polls)

VoteCounts(poll) == [k \in 1..Len(poll.options) |-> poll.options[k].votes]

\* C11: a closed poll stays closed and keeps its options, vote counts and
\* totalVotes in every later state, and a click on an option of a poll that
\* is not active changes neither the polls nor the vote record.
C11_ClosedFrozen ==
    [][/\ \A i \in 1..Len(polls) :
             polls[i].status = "closed" =>
                 /\ polls'[After(i)].status = "closed"
                 /\ polls'[After(i)].options = polls[i].options
                 /\ polls'[After(i)].totalVotes = polls[i].totalVotes
       /\ \A i \in 1..Len(polls), optionId \in PollOptionIds :
             (PollOptionClick(i, optionId) /\ polls[i].status # "active")
                 => UNCHANGED <<polls, userVotes>>]_vars

\* C12: totalVotes of every poll is the sum of its options' vote counts, and
\* a vote that is accepted raises the count of the chosen option by 1,
\* leaves the other counts alone and raises totalVotes by 1.
C12_SumInvariant ==
    \A i \in 1..Len(polls) : polls[i].totalVotes = SumVotes(VoteCounts(polls[i]))

C12_VoteEffect ==
    \A i \in 1..Len(polls), optionId \in PollOptionIds :
        (PollOptionClick(i, optionId) /\ isSignedIn /\ canVote(polls[i])) =>
            /\ polls'[i].totalVotes = polls[i].totalVotes + 1
            /\ \A k \in 1..Len(polls[i].options) :
                   polls'[i].options[k].votes =
                       polls[i].options[k].votes + (IF k = optionId THEN 1 ELSE 0)

C12_TotalIsSum == []C12_SumInvariant /\ [][C12_VoteEffect]_vars

IsCloseAnnouncement(m) ==
    m.type = "system" /\ m.text # <<>> /\ m.text[1] = "Poll closed! "

\* C13: a poll goes from active to closed only in a step taken by its
\* createdBy, and a step adds exactly one winner announcement for each poll
\* it closes: none when it closes no poll, never a second one for a poll.
C13_CreatorCloses ==
    [][LET closing == { i \in 1..Len(polls) :
                          polls[i].status = "active"
                              /\ polls'[After(i)].status = "closed" }
           added == { j \in (Len(messages) + 1)..Len(messages') :
                          IsCloseAnnouncement(messages'[j]) }
       IN  /\ \A i \in closing : polls[i].createdBy = currentUsername
           /\ Cardinality(added) = Cardinality(closing)]_vars

\* the first option, in insertion order, that holds the largest vote count
FirstMaximum(poll) ==
    CHOOSE k \in 1..Len(poll.options) :
        /\ \A l \in 1..Len(poll.options) : poll.options[l].votes <= poll.options[k].votes
        /\ \A l \in 1..(k - 1) : poll.options[l].votes < poll.options[k].votes

\* C14: the winner of a poll is the first option holding the maximum vote
\* count, and none when totalVotes is 0: the card of a closed poll
\* highlights it, and the announcement a close adds for the poll names it,
\* naming no option when there is none.
C14_CardWinner ==
    \A i \in 1..Len(polls) :
        polls[i].status = "closed" =>
            pollCards[i].winningOptionId =
                IF polls[i].totalVotes = 0 THEN Null
                ELSE polls[i].options[FirstMaximum(polls[i])].id

C14_AnnouncedWinner ==
    \A i \in 1..Len(polls) :
        ClosePollClick(i) =>
            LET poll == polls[i]
                texts == { messages'[j].text : j \in (Len(messages) + 1)..Len(messages') }
            IN  IF poll.totalVotes = 0
                THEN \A k \in 1..Len(poll.options) :
                        closeAnnouncement(poll, poll.options[k]) \notin texts
                ELSE closeAnnouncement(poll, poll.options[FirstMaximum(poll)]) \in texts

C14_WinnerAgreement == []C14_CardWinner /\ [][C14_AnnouncedWinner]_vars

\* C15: the percentage a card shows for an option is 0 when totalVotes is 0
\* and otherwise the integer nearest to 100 * votes / totalVotes, a half
\* rounding up; it lies in 0..100, and votes 3 and 1 show 75 and 25.
C15_Percentages ==
    \A i \in 1..Len(polls) :
        LET poll == polls[i]
            shown == pollCards[i].optionsWithPercentage
        IN  /\ Len(shown) = Len(poll.options)
            /\ \A k \in 1..Len(poll.options) :
                   /\ shown[k] \in 0..100
                   /\ IF poll.totalVotes = 0
                      THEN shown[k] = 0
                      ELSE /\ 2 * poll.totalVotes * shown[k] - poll.totalVotes
                                 <= 200 * poll.options[k].votes
                           /\ 200 * poll.options[k].votes
                                 < 2 * poll.totalVotes * shown[k] + poll.totalVotes
            /\ VoteCounts(poll) = <<3, 1>> => shown = <<75, 25>>

\* C15 witness: a vote has brought a poll to 3 and 1, and its card shows 75
\* and 25.
C15_Witness ==
    \E i \in 1..Len(polls) :
        /\ VoteCounts(polls[i]) = <<3, 1>>
        /\ polls[i].id \in DOMAIN userVotes
        /\ pollCards[i].optionsWithPercentage = <<75, 25>>

\* the entries of the retained reaction list with emoji e
Retained(list, e) == { i \in 1..Len(list) : list[i].emoji = e }

\* C16: the count shown for an emoji is at most the number of its recorded
\* reactions that are younger than 30 seconds, in every state.
C16_NoStaleCount ==
    \A e \in EMOJI :
        reactionCounts[e] <=
            Cardinality({ i \in Retained(reactionTimestamps, e) :
                              now - reactionTimestamps[i].timestamp < DecayWindow })

\* C17: the count of an emoji is the number of its retained reactions; a
\* run of the interval callback retains no reaction recorded 30 s or more
\* before it, so that with the callback running every second no reaction
\* recorded 31 s ago or earlier is retained; and a reaction that is not
\* retained is never retained again: an entry that joins the list carries
\* the current time.
C17_Counted ==
    /\ \A e \in EMOJI :
           reactionCounts[e] = Cardinality(Retained(reactionTimestamps, e))
    /\ \A i \in 1..Len(reactionTimestamps) :
           now < reactionTimestamps[i].timestamp + DecayWindow + DecayInterval

C17_Expiry ==
    /\ DecayTick =>
           \A i \in 1..Len(reactionTimestamps') :
               now < reactionTimestamps'[i].timestamp + DecayWindow
    /\ \A i \in 1..Len(reactionTimestamps') :
           \/ \E j \in 1..Len(reactionTimestamps) :
                  reactionTimestamps'[i] = reactionTimestamps[j]
           \/ reactionTimestamps'[i].timestamp = now

C17_DecayAfterWindow == []C17_Counted /\ [][C17_Expiry]_vars

\* C17 witness: a reaction in the history was recorded 31 s ago or earlier,
\* the callback has run since, and the count of its emoji is 0.
C17_Witness ==
    /\ \E j \in 1..Len(messages) :
           /\ messages[j].type = "reaction"
           /\ messages[j].text = <<"fire">>
           /\ messages[j].id + DecayWindow + DecayInterval <= now
    /\ now < decayDue
    /\ reactionCounts["fire"] = 0

\* C18: the count map has exactly the five enumerated keys, each holding a
\* non-negative integer, also when the history holds a reaction event for
\* another symbol.
C18_FiveKeys ==
    /\ DOMAIN reactionCounts = EMOJI
    /\ \A e \in DOMAIN reactionCounts : reactionCounts[e] \in Nat

\* C18 witness: the history holds a reaction event whose symbol is not one
\* of the five, next to a counted reaction.
C18_Witness ==
    /\ \E j \in 1..Len(messages) :
           messages[j].type = "reaction" /\ messages[j].text[1] \notin EMOJI
    /\ reactionCounts["fire"] > 0

\* host is domain or ends with a dot followed by domain
IsDomainOrSubdomain(host, domain) ==
    \/ host = domain
    \/ \E k \in 3..Len(host) :
           host[k - 1] = "." /\ SubSeq(host, k, Len(host)) = domain

\* a gif attachment with an https URL on an allow-listed host
AcceptableMedia(media) ==
    /\ media.js = "object"
    /\ media.type = "gif"
    /\ Len(media.url) >= 3
    /\ media.url[1] = "https:"
    /\ media.url[2] = "//"
    /\ \E n \in 3..Len(media.url) :
           /\ n = Len(media.url) \/ media.url[n + 1] = "/"
           /\ \A k \in 3..n : media.url[k] # "/"
           /\ \E domain \in ALLOWED_MEDIA_DOMAINS :
                  IsDomainOrSubdomain(SubSeq(media.url, 3, n), domain)

\* C19: every entry of the history that carries a media attachment carries
\* a gif with an https URL whose host is an allow-listed domain or a
\* subdomain of one.
C19_TrustedMedia ==
    \A j \in 1..Len(messages) :
        messages[j].media # NoMedia => AcceptableMedia(messages[j].media)

\* the entry the history gets for an inbound event: author and body
\* sanitized, the attachment kept when it is acceptable and absent otherwise
Accepted(id, event) ==
    [id |-> id,
     username |-> sanitizeText(event.username),
     text |-> sanitizeText(event.text),
     type |-> event.type,
     media |-> IF AcceptableMedia(event.media) THEN event.media ELSE NoMedia]

\* C20: a delivered event with a new id is appended, and a loaded event is
\* stored, with sanitized author and body and without its media field
\* unless the media is a gif with an https URL on an allow-listed host; the
\* URL https://media.giphy.com/x.gif is accepted and
\* http://media.giphy.com/x.gif and https://evil.example.com/x.gif are not.
C20_InvalidMediaDropped ==
    [][/\ \A data \in MediaPayloads :
             (data.id \notin processedMessageIds /\ SubscriptionNext(data)) =>
                 messages' = Append(messages, Accepted(data.id, data))
       /\ \A persistedMessages \in MediaHistories :
             LoadPersistedResolved(persistedMessages) =>
                 messages' = <<Accepted(persistedMessages[1].timestamp,
                                        persistedMessages[1])>>
       /\ sanitizeMedia(Gif(GiphyUrl)) = Gif(GiphyUrl)
       /\ sanitizeMedia(Gif(GiphyHttpUrl)) = NoMedia
       /\ sanitizeMedia(Gif(EvilUrl)) = NoMedia]_vars

\* C20 witness: the history holds a peer's GIF-only event whose media was
\* dropped, after an event whose media was kept.
C20_Witness ==
    \E i, j \in 1..Len(messages) :
        /\ i < j
        /\ messages[i].media = Gif(GiphyUrl)
        /\ messages[j].username = <<"S", "a", "m">>
        /\ messages[j].text = <<>>
        /\ messages[j].media = NoMedia

\* C21: every entry of kind message in the history has a body that is not
\* empty or carries a media attachment.
C21_BodyOrMedia ==
    \A j \in 1..Len(messages) :
        messages[j].type = "message" =>
            messages[j].text # <<>> \/ messages[j].media # NoMedia

\* a step of message send, of poll creation or of a vote
GatedStep ==
    \/ handleSendMessage
    \/ handleOpenCreatePoll
    \/ \E question \in PollQuestions, optionTexts \in PollOptionTexts :
          handleCreatePoll(question, optionTexts)
    \/ \E i \in 1..MaxPolls, optionId \in PollOptionIds : PollOptionClick(i, optionId)

\* C22: while the user is not signed in, a step of message send, poll
\* creation or vote changes neither the history, the polls, the vote record,
\* the ledger nor the user stats, and issues no post, save or xp request.
C22_SignInGate ==
    [][(~isSignedIn /\ GatedStep) =>
          UNCHANGED <<messages, polls, userVotes, processedMessageIds, userStats,
                      inFlight, xpRequests>>]_vars

\* the post calls a step issues
Posted == { call \in BagToSet(inFlight') :
              call.op = "post" /\ CopiesIn(call, inFlight') > CopiesIn(call, inFlight) }

\* C23: the step that issues the post of an event has appended that event
\* to the history and put its id in the ledger, and the step in which a post
\* or a save fails changes neither the history, the ledger nor the stats.
C23_NoRollback ==
    [][/\ \A call \in Posted :
             /\ messages' = Append(messages, call.event)
             /\ call.event.id \in processedMessageIds'
       /\ \A call \in BagToSet(inFlight) :
             (PostRejected(call) \/ SaveRejected(call)) =>
                 UNCHANGED <<messages, processedMessageIds, userStats>>]_vars

\* C23 witness: the user's text, GIF and reaction stand in the history with
\* their ids in the ledger and an award made, and every post and save issued
\* for them has settled.
C23_Witness ==
    /\ inFlight = EmptyBag
    /\ userStats.xp > 0
    /\ \E i, j, k \in 1..Len(messages) :
           /\ messages[i].type = "message" /\ messages[i].text = <<"<", "3">>
           /\ messages[j].type = "message" /\ messages[j].media # NoMedia
           /\ messages[k].type = "reaction"
           /\ {messages[i].id, messages[j].id, messages[k].id} \subseteq processedMessageIds

\* a step in which a call to the channel or to a store fails; a failed
\* fetch of the history or of the stats resolves to the empty answer
FailureStep ==
    \/ ConnectRejected
    \/ SubscriptionError
    \/ \E call \in BagToSet(inFlight) : PostRejected(call) \/ SaveRejected(call)
    \/ LoadPersistedResolved(<<>>)
    \/ InitUserStatsResolved(NoStats)

\* C24: after a step in which a call to the channel or to a store fails,
\* the connectivity indicator is set.
C24_FailureIndicated == [][FailureStep => connectionError' # "null"]_vars

\* C25: once App is unmounted the decay interval is cleared and no
\* subscription or channel is open, however the teardown is ordered with the
\* completion of the connect, and no step after the teardown changes the
\* history or the reaction counts.
C25_Released == ~mounted => (decayDue = Cleared /\ connectPc # "subscribed")

C25_TornDown ==
    /\ []C25_Released
    /\ [][~mounted => UNCHANGED <<messages, reactionVars>>]_vars

Msg(name) == [id |-> 1, username |-> name, text |-> <<"g", "o">>, type |-> "message",
              media |-> NoMedia]
Reaction(name) == [id |-> 1, username |-> name, text |-> <<"fire">>, type |-> "reaction",
                   media |-> NoMedia]
Bob == <<"B", "o", "b">>
Sam == <<"S", "a", "m">>

\* the number of messages of author after the newest message of anybody
\* else
RunLength(history, author) ==
    LET others == { i \in 1..Len(history) :
                      history[i].type = "message" /\ history[i].username # author }
        last == IF others = {} THEN 0 ELSE CHOOSE i \in others : \A j \in others : j <= i
    IN  Cardinality({ i \in (last + 1)..Len(history) :
                        history[i].type = "message" /\ history[i].username = author })

\* C26: the streak an award computes is the number of the author's messages
\* after the newest message of anybody else, reactions and system entries
\* not counting and not ending the run; [msg(Bob), reaction, msg(Bob),
\* msg(Bob)] gives 3 for Bob, [msg(Bob), msg(Sam)] gives 1 for Sam and the
\* empty history gives 0.
C26_Streak ==
    [][/\ AwardStep =>
             userStats'.currentStreak = RunLength(messages', currentUsername)
       /\ calculateCurrentStreak(<<Msg(Bob), Reaction(Bob), Msg(Bob), Msg(Bob)>>, Bob) = 3
       /\ calculateCurrentStreak(<<Msg(Bob), Msg(Sam)>>, Sam) = 1
       /\ calculateCurrentStreak(<<>>, Bob) = 0]_vars

\* C26 witness: Bob's message, a reaction and Bob's new message: an award
\* has counted a streak of 2 across the reaction.
C26_Witness ==
    /\ Len(messages) = 3
    /\ messages[1].type = "message" /\ messages[1].username = Bob
    /\ messages[2].type = "reaction"
    /\ messages[3].type = "message" /\ messages[3].username = Bob
    /\ Len(xpRequests) > 0
    /\ userStats.currentStreak = 2

\* the bonus for a streak of s messages
MilestoneBonus(s) ==
    CASE s = 3 -> 15
      [] s = 5 -> 30
      [] s = 10 -> 50
      [] OTHER -> 0

\* a step that adds a streak notification
StreakToastStep ==
    /\ Len(toasts') = Len(toasts) + 1
    /\ toasts'[Len(toasts')].type = "streak"

\* C27: an award for a streak of s raises xp by 5 plus 15 when s = 3, 30
\* when s = 5, 50 when s = 10 and nothing otherwise, and adds a streak
\* notification exactly when that bonus is not 0.
C27_AwardDelta ==
    [][AwardStep =>
          LET s == userStats'.currentStreak
          IN  /\ userStats'.xp - userStats.xp = 5 + MilestoneBonus(s)
              /\ StreakToastStep <=> MilestoneBonus(s) # 0
              /\ toasts' # toasts => StreakToastStep]_vars

\* C27 witness: awards have been made for streaks up to 10, the last with
\* its bonus of 50, after streaks of 3 or 5 with theirs.
C27_Witness ==
    /\ userStats.currentStreak = 10
    /\ Len(xpRequests) >= 2
    /\ Len(SelectSeq(toasts, LAMBDA t : t.type = "streak")) >= 2

\* the tiers as (rank, name, threshold), as the README lists them
Tiers == { <<1, "Rookie Ranter", 0>>, <<2, "Sideline Sniper", 100>>,
           <<3, "Halftime Heckler", 300>>, <<4, "Fourth-Quarter Fiend", 600>>,
           <<5, "Hall-of-Flame", 1000>> }

\* the tier with the largest threshold that is at most xp, the first tier
\* when there is none
HighestTier(xp) ==
    LET reached == { t \in Tiers : t[3] <= xp }
    IN  IF reached = {} THEN <<1, "Rookie Ranter", 0>>
        ELSE CHOOSE t \in reached : \A u \in reached : u[3] <= t[3]

IsTier(level, t) == level.level = t[1] /\ level.name = t[2] /\ level.xpRequired = t[3]

\* the xp values the table is probed at
ProbedXps == LevelXps \cup {-1, 1, 101, 301, 601, 1001, 1005}

\* C28: the level stored with an xp, by the stats fetch and by an award, is
\* the highest tier of {0, 100, 300, 600, 1000} whose threshold is at most
\* that xp, and rank 1 for a negative xp; the rank never decreases as xp
\* grows; 0 and 99 give rank 1 Rookie Ranter, 100 rank 2, 1000 and above
\* rank 5 Hall-of-Flame.
C28_LevelFor ==
    [][/\ userStats' # userStats => IsTier(userStats'.level, HighestTier(userStats'.xp))
       /\ \A x \in ProbedXps : IsTier(calculateLevel(x), HighestTier(x))
       /\ \A x, y \in ProbedXps : x <= y => Rank(x) <= Rank(y)
       /\ IsTier(calculateLevel(0), <<1, "Rookie Ranter", 0>>)
       /\ Rank(-5) = 1 /\ Rank(99) = 1 /\ Rank(100) = 2
       /\ IsTier(calculateLevel(1000), <<5, "Hall-of-Flame", 1000>>)
       /\ Rank(4000) = 5]_vars

\* C28 witness: an award has taken a fetched xp of 995 to 1000 or above, and
\* the level stored is Hall-of-Flame.
C28_Witness ==
    /\ Len(xpRequests) > 0
    /\ userStats.xp >= 1000 /\ userStats.xp < 4000
    /\ userStats.level.level = 5 /\ userStats.level.name = "Hall-of-Flame"

\* C29: the count of each of the five emoji is the number of entries with
\* that emoji in the reaction list; a reaction the user records raises the
\* count of its emoji by 1 and appends one entry, a run of the interval
\* callback replaces the counts by the recount of the entries it keeps, and
\* the delivery of a peer's reaction changes neither counts nor list.
C29_CountIsTally ==
    \A e \in EMOJI :
        reactionCounts[e] = Cardinality(Retained(reactionTimestamps, e))

C29_CountSteps ==
    /\ \A emoji \in ReactionButtons :
           handleReaction(emoji) =>
               /\ reactionTimestamps' =
                      Append(reactionTimestamps, [emoji |-> emoji, timestamp |-> now])
               /\ \A e \in EMOJI :
                      reactionCounts'[e] = reactionCounts[e] + (IF e = emoji THEN 1 ELSE 0)
    /\ DecayTick =>
           \A e \in EMOJI :
               reactionCounts'[e] = Cardinality(Retained(reactionTimestamps', e))
    /\ \A data \in PeerReactions : SubscriptionNext(data) => UNCHANGED reactionVars

C29_CountsMatchList == []C29_CountIsTally /\ [][C29_CountSteps]_vars

\* C29 witness: the user has recorded two reactions, a run of the callback
\* has dropped the older one, the list holds the newer one with the count 1,
\* and the history holds a peer's reaction as well.
C29_Witness ==
    /\ Len(reactionTimestamps) = 1
    /\ reactionCounts["fire"] = 1
    /\ \E j \in 1..Len(messages) :
           /\ messages[j].type = "reaction"
           /\ messages[j].username = <<"S", "a", "m">>
    /\ Cardinality({ j \in 1..Len(messages) :
                       messages[j].type = "reaction" /\ messages[j].username = Anonymous }) = 2

\* the request for the query in the search box: trending when it is blank
CurrentRequest ==
    IF trimEnd(trimStart(searchQuery)) = <<>> THEN Trending ELSE Search(searchQuery)

\* C30: a search request is issued only by the expiry of the debounce
\* timer, which a keystroke restarts; isLoading is true while a request is
\* outstanding; and when the picker is open with no request outstanding and
\* no timer pending, isLoading is false and the items shown are those of
\* the query in the search box, trending when it is blank.
C30_Settled ==
    /\ requests # <<>> => isLoading
    /\ (showKlipyPicker /\ requests = <<>> /\ ~debounceTimer.set) =>
           (~isLoading /\ contentItems = resultsOf(CurrentRequest))

C30_Debounced ==
    /\ (Len(requests') > Len(requests) /\ ~requests'[Len(requests')].trending) =>
           (debounceTimer.set /\ requests'[Len(requests')].query = debounceTimer.query)
    /\ \A text \in SearchTexts :
           handleSearchChange(text) => (debounceTimer'.set => debounceTimer'.query = text)

C30_LatestQueryShown == []C30_Settled /\ [][C30_Debounced]_vars

====
